---- MODULE Spec2Model ----
(***************************************************************************)
(* A model of FileSearchEngine (src/file_searcher.py and its CPU-only      *)
(* predecessor src/file_searcher_CPUsearcher.py): search() run on one      *)
(* thread, the worker pool running _check_file / _search_in_file, and      *)
(* stop() called from another thread.                                      *)
(*                                                                         *)
(* Strings are sequences of one-character strings.  A file's content is    *)
(* described by its size, whether a NUL byte lies in its first 8192 bytes, *)
(* and the byte range [mpos, mpos+mlen) of the one place where the content *)
(* pattern matches (mlen = 0: it matches nowhere); pattern.search on the   *)
(* slice [s, e) of the file succeeds iff that range lies inside the slice  *)
(* and the letter case of the text there is the pattern's, or the pattern   *)
(* ignores case.                                                            *)
(***************************************************************************)
EXTENDS Integers, Sequences, FiniteSets, TLC

VARIABLES
    engine,          \* which source file's FileSearchEngine runs
    gpu,             \* self.use_gpu and what gpu_search_engine found at import
    max_workers,     \* self.max_workers
    tree,            \* the directory tree under root_path (never changes)
    crit,            \* the arguments of search()
    stop_flag,       \* self.stop_flag (threading.Event)
    pc,              \* position of the thread that runs search()
    wd,              \* walk: directory being listed
    wf,              \* walk: files of that directory already seen
    files_to_check,  \* files_to_check
    fut,             \* the futures, in submission order
    yieldq,          \* futures as_completed will yield next, in order
    cur,             \* the future the collection loop is handling
    results,         \* results
    processed,       \* processed
    calls,           \* the callback invocations so far, in order
    stop_requested,  \* history: stop() was called while search() was running
    observed,        \* history: search() has read the flag as set
    listed,          \* history: directories listed by os.walk
    checked,         \* history: tasks whose _check_file got past its first line
    resultsAtObs,    \* history: results when the flag was first observed
    opened,          \* history: tasks whose content scan opened the file
    stopped_idle,    \* history: when stop() was called with no search running:
                     \* "fresh" (before the first search), "returned" (after one)
    stats,           \* self.gpu_engine.stats (the counters of HybridSearchEngine)
    previous         \* history: the outcomes of the checks of the search before

vars == <<engine, gpu, max_workers, tree, crit, stop_flag, pc, wd, wf,
          files_to_check, fut, yieldq, cur, results, processed, calls,
          stop_requested, observed, listed, checked, resultsAtObs,
                   opened, stopped_idle, stats, previous>>

-----------------------------------------------------------------------------
(* Program constants *)

KiB == 1024
MiB == 1024 * 1024
SizeCeiling == 100 * MiB       \* file_searcher.py:286
ProbeLen == 8192               \* file_searcher.py:291
SafeLimitNormal == 5 * MiB     \* file_searcher.py:305
SafeLimitDanger == 1 * MiB     \* file_searcher.py:307
ChunkDanger == 512 * KiB       \* file_searcher.py:330
ChunkNormal == 5 * MiB         \* file_searcher.py:332
Overlap == 1024                \* file_searcher.py:340
HeartbeatEvery == 100          \* file_searcher.py:198

(* Bounds of the model *)
MaxWorkers == 2                \* sizes of the worker pool tried: 1..MaxWorkers
MaxBoundary == 2               \* chunk boundaries k*chunk_size tried: 1..MaxBoundary
BigFiles == 201                \* candidates of the long uncancelled run

None == <<>>                   \* an absent optional argument; Some(x) is <<x>>
Some(x) == <<x>>
NameOnly == "name"             \* "Имя файла"
ContentMatch == "content"      \* "Содержимое файла"

-----------------------------------------------------------------------------
(* String helpers: str.lower, str.strip('.'), str.strip(), splitext,       *)
(* fnmatch, re.search of a literal pattern.                                *)

Lower(c) == CASE c = "A" -> "a" [] c = "B" -> "b" [] c = "T" -> "t" [] OTHER -> c

LowerStr(s) == [i \in 1..Len(s) |-> Lower(s[i])]

RECURSIVE StripL(_, _)
StripL(s, c) == IF s # <<>> /\ Head(s) = c THEN StripL(Tail(s), c) ELSE s

RECURSIVE StripR(_, _)
StripR(s, c) ==
    IF s # <<>> /\ s[Len(s)] = c THEN StripR(SubSeq(s, 1, Len(s) - 1), c) ELSE s

Strip(s, c) == StripR(StripL(s, c), c)

\* os.path.splitext(filename)[1]: from the last dot on, unless only dots
\* precede it
SplitExt(name) ==
    LET dots == {i \in 1..Len(name) : name[i] = "."}
        last == CHOOSE i \in dots : \A j \in dots : j <= i
    IN  IF dots = {} THEN <<>>
        ELSE IF \A j \in 1..(last - 1) : name[j] = "." THEN <<>>
        ELSE SubSeq(name, last, Len(name))

RECURSIVE FnMatch(_, _)
FnMatch(name, pat) ==
    IF pat = <<>> THEN name = <<>>
    ELSE IF Head(pat) = "*"
         THEN FnMatch(name, Tail(pat))
              \/ (name # <<>> /\ FnMatch(Tail(name), pat))
    ELSE /\ name # <<>>
         /\ (Head(pat) = "?" \/ Head(pat) = Head(name))
         /\ FnMatch(Tail(name), Tail(pat))

\* a regex made of literal characters, searched anywhere in the name
Contains(s, sub) ==
    \E i \in 0..(Len(s) - Len(sub)) : SubSeq(s, i + 1, i + Len(sub)) = sub

\* re.compile: of the characters used here, "*" at the start ("nothing to
\* repeat") and "[" (unterminated set) and "(" (missing parenthesis) are errors
RegexCompiles(p) ==
    /\ p = <<>> \/ Head(p) # "*"
    /\ \A i \in 1..Len(p) : p[i] \notin {"[", "("}

-----------------------------------------------------------------------------
(* search(): pattern compilation and extension normalisation *)

Truthy(opt) == opt # None /\ opt # Some(0)

HasContentPatternNever(c) == FALSE

\* content_regex is a sequence of regex tokens; None and "" are both falsy
HasContentPattern(c) == c.content_regex # <<>>

HasNameRegex(c) == c.use_regex_name /\ c.name_pattern # <<"*">>

ContentCompileFails(c) == HasContentPattern(c) /\ ~RegexCompiles(c.content_regex)

NameCompiledAlways(c) == c.name_pattern # <<"*">> /\ ~RegexCompiles(c.name_pattern)

NameCompileFails(c) == HasNameRegex(c) /\ ~RegexCompiles(c.name_pattern)

CompileFails(c) == ContentCompileFails(c) \/ NameCompileFails(c)

\* [ext.lower().strip('.') for ext in extensions if ext.strip()]
NormalizeExtensions(exts) ==
    {Strip(LowerStr(exts[i]), ".") : i \in {j \in 1..Len(exts) : Strip(exts[j], " ") # <<>>}}

-----------------------------------------------------------------------------
(* _check_file, the checks before the content scan *)

RegexNameSearch(name, c) ==
    IF c.case_sensitive THEN Contains(name, c.name_pattern)
    ELSE Contains(LowerStr(name), LowerStr(c.name_pattern))

NameOk(f, c) ==
    IF HasNameRegex(c) THEN RegexNameSearch(f.name, c)
    ELSE IF c.name_pattern # <<"*">>
         THEN IF c.case_sensitive THEN FnMatch(f.name, c.name_pattern)
              ELSE FnMatch(LowerStr(f.name), LowerStr(c.name_pattern))
    ELSE TRUE

ExtOk(f, c) ==
    LET exts == IF c.extensions # <<>> THEN NormalizeExtensions(c.extensions) ELSE {}
    IN  exts # {} => Strip(LowerStr(SplitExt(f.name)), ".") \in exts

SizeOk(f, c) ==
    /\ ~(c.min_size # 0 /\ f.size < c.min_size)
    /\ ~(Truthy(c.max_size) /\ f.size > c.max_size[1])

MtimeOk(f, c) ==
    /\ ~(c.modified_after # None /\ f.mtime < c.modified_after[1])
    /\ ~(c.modified_before # None /\ f.mtime > c.modified_before[1])

\* The outcome of lines 213-251: "reject" (return None), "oserror" (os.stat
\* raised PermissionError/OSError: return None), "raise" (another exception
\* leaves _check_file), "pass"
CheapFilters(f, c) ==
    IF ~f.regular THEN "reject"
    ELSE IF ~NameOk(f, c) THEN "reject"
    ELSE IF ~ExtOk(f, c) THEN "reject"
    ELSE IF f.fault = "os" THEN "oserror"
    ELSE IF f.fault = "other" THEN "raise"
    ELSE IF ~SizeOk(f, c) THEN "reject"
    ELSE IF ~MtimeOk(f, c) THEN "reject"
    ELSE "pass"

-----------------------------------------------------------------------------
(* _search_in_file *)

DangerousTokens == {"[\\s\\S]*", "[\\s\\S]+", "[\\w\\W]*", "[\\w\\W]+",
                    "[\\d\\D]*", "[\\d\\D]+", ".*?", ".+?"}

_is_dangerous_pattern(p) == \E i \in 1..Len(p) : p[i] \in DangerousTokens

Max(a, b) == IF a >= b THEN a ELSE b
Min(a, b) == IF a <= b THEN a ELSE b

\* the pattern's text lies within the bytes [s, e) of the file
SliceMatch(f, s, e) == f.mlen > 0 /\ s <= f.mpos /\ f.mpos + f.mlen <= e

\* pattern.search on the decoded bytes [s, e) of the file; the pattern was
\* compiled with re.IGNORECASE unless case_sensitive (lines 125-127).  f.exact:
\* the text in the file has the pattern's letter case
PatternSearch(f, c, s, e) == SliceMatch(f, s, e) /\ (f.exact \/ ~c.case_sensitive)

AtOrOverCeiling(f) == f.size >= SizeCeiling

\* `if file_size > 100 * 1024 * 1024: return False`
OverCeiling(f) == f.size > SizeCeiling

BinaryProbeSkipped(f) == FALSE

\* `chunk = f.read(8192)`, `if b'\x00' in chunk: return False`
BinaryProbe(f) == f.nul

SafeLimit(c) ==
    IF _is_dangerous_pattern(c.content_regex) THEN SafeLimitDanger ELSE SafeLimitNormal

ChunkSize(c) ==
    IF _is_dangerous_pattern(c.content_regex) THEN ChunkDanger ELSE ChunkNormal

ChunkOverlap == Overlap

ChunkStartNoOverlap(off) == off

\* start = max(0, offset - overlap)
ChunkStart(off) == Max(0, off - ChunkOverlap)

ChunkEnd(f, c, off) == Min(f.size, off + ChunkSize(c))

\* pattern.search(text) raises on the chunk read at this offset (f.cfault: the
\* offset of the chunk it raises on, -1 when it raises on none)
ChunkFaults(f, off) == f.cfault = off

\* `if pattern.search(text): return True` inside the try of lines 348-354
ChunkHit(f, c, off) ==
    ~ChunkFaults(f, off) /\ PatternSearch(f, c, ChunkStart(off), ChunkEnd(f, c, off))

NextOffsetFaultEnds(f, c, off) ==
    IF ChunkFaults(f, off) THEN f.size ELSE off + ChunkSize(c)

\* the offset of the next turn of `for offset in range(0, file_size,
\* chunk_size)`, reached by falling off the loop body or by `continue`
NextOffset(f, c, off) == off + ChunkSize(c)

\* What _search_in_file does after its first flag check and before any later
\* one: "false", "true", or the tier it goes on with ("medium", "chunk")
ScanEnter(f, c, eng) ==
    IF OverCeiling(f) THEN "false"
    ELSE IF BinaryProbe(f) THEN "false"
    ELSE IF f.size < ProbeLen
         THEN IF PatternSearch(f, c, 0, f.size) THEN "true" ELSE "false"
    ELSE IF eng = "CPUsearcher"
         THEN IF PatternSearch(f, c, 0, f.size) THEN "true" ELSE "false"
    ELSE IF f.size <= SafeLimit(c) THEN "medium"
    ELSE "chunk"

\* the chunk loop from offset off on, when the flag is never set
RECURSIVE ScanChunks(_, _, _)
ScanChunks(f, c, off) ==
    IF off >= f.size THEN FALSE
    ELSE IF ChunkHit(f, c, off) THEN TRUE
    ELSE ScanChunks(f, c, NextOffset(f, c, off))

\* _search_in_file when the flag is never set
SearchInFile(f, c, eng) ==
    LET t == ScanEnter(f, c, eng)
    IN  CASE t = "true" -> TRUE
          [] t = "false" -> FALSE
          [] t = "medium" -> PatternSearch(f, c, 0, f.size)
          [] t = "chunk" -> ScanChunks(f, c, 0)

-----------------------------------------------------------------------------
(* gpu_search_engine.py: HybridSearchEngine and GPUPatternMatcher.  g is    *)
(* [use_gpu, cupy, numba, fault]: FileSearchEngine.use_gpu, USE_CUPY,       *)
(* USE_NUMBA, and where the GPU path faults on this machine: "none",        *)
(* "search" (in _search_cupy / _search_numba before the literal search),    *)
(* "literal" (in _literal_search_gpu / _literal_search_numba, outside the   *)
(* batch comparison and the kernel launch), "inner" (in                     *)
(* _check_positions_batch / _run_cuda_kernel).                              *)

NoGpu == [use_gpu |-> FALSE, cupy |-> FALSE, numba |-> FALSE, fault |-> "none"]

GpuFaults == {"none", "search", "literal", "inner"}

\* `if self.use_gpu and self.gpu_engine` (file_searcher.py:279)
UsesGpu(eng, g) == eng = "file_searcher" /\ g.use_gpu

GPU_AVAILABLE(g) == g.cupy \/ g.numba

MinFileSizeForGpu == 1024 * 1024
MaxPatternComplexity == 10

\* tokens holding one of \1 \2 (?= (?! (?< (?( \g<
UnfriendlyTokens == {"\\1", "\\2", "(?=y)", "(?!y)", "(?<=y)", "(?(1)y)", "\\g<1>"}

\* the number of ( [ { in a token, and the number of backslashes
TokenBrackets(tok) ==
    IF tok \in {"(?=y)", "(?!y)", "(?<=y)", "[\\s\\S]*", "[\\s\\S]+", "[\\w\\W]*",
                "[\\w\\W]+", "[\\d\\D]*", "[\\d\\D]+"} THEN 1
    ELSE IF tok = "(?(1)y)" THEN 2
    ELSE 0

TokenBackslashes(tok) ==
    IF tok \in {"[\\s\\S]*", "[\\s\\S]+", "[\\w\\W]*", "[\\w\\W]+", "[\\d\\D]*", "[\\d\\D]+"}
    THEN 2
    ELSE IF tok \in {"\\1", "\\2", "\\g<1>"} THEN 1
    ELSE 0

RECURSIVE SumOver(_, _)
SumOver(p, i) ==
    IF i > Len(p) THEN [brackets |-> 0, backslashes |-> 0]
    ELSE LET r == SumOver(p, i + 1)
         IN  [brackets |-> r.brackets + TokenBrackets(p[i]),
              backslashes |-> r.backslashes + TokenBackslashes(p[i])]

is_pattern_gpu_friendly(p) ==
    /\ \A i \in 1..Len(p) : p[i] \notin UnfriendlyTokens
    /\ SumOver(p, 1).brackets + (SumOver(p, 1).backslashes \div 2) <= MaxPatternComplexity

\* no token has one of the characters . * + ? [ ] { } ( ) ^ $ | \
_is_literal_pattern(p) == \A i \in 1..Len(p) : p[i] \in {"x", "y"}

\* bool(pattern.search(text.decode(...))) on the whole data
_search_cpu(f, c) == PatternSearch(f, c, 0, f.size)

\* the byte-by-byte comparison of the pattern's text at every position, and
\* `substring in text`: both find the text only in the pattern's letter case
LiteralFind(f) == f.mlen > 0 /\ f.exact

\* _check_positions_batch and _run_cuda_kernel return False from their
\* `except Exception`; the except of the literal search itself returns
\* `substring in text`
_literal_search_gpu(f, c, g) ==
    IF g.fault = "literal" THEN LiteralFind(f)
    ELSE IF g.fault = "inner" THEN FALSE
    ELSE LiteralFind(f)

_search_cupy(f, c, g) ==
    IF g.fault = "search" THEN _search_cpu(f, c)
    ELSE IF _is_literal_pattern(c.content_regex) THEN _literal_search_gpu(f, c, g)
    ELSE _search_cpu(f, c)

_literal_search_numba(f, c, g) ==
    IF g.fault = "literal" THEN LiteralFind(f)
    ELSE IF g.fault = "inner" THEN FALSE
    ELSE LiteralFind(f)

_search_numba(f, c, g) ==
    IF g.fault = "search" THEN _search_cpu(f, c)
    ELSE IF _is_literal_pattern(c.content_regex) THEN _literal_search_numba(f, c, g)
    ELSE _search_cpu(f, c)

search_in_text_gpu(f, c, g) ==
    IF ~GPU_AVAILABLE(g) \/ f.size < MinFileSizeForGpu THEN _search_cpu(f, c)
    ELSE IF ~is_pattern_gpu_friendly(c.content_regex) THEN _search_cpu(f, c)
    ELSE IF g.cupy THEN _search_cupy(f, c, g)
    ELSE IF g.numba THEN _search_numba(f, c, g)
    ELSE _search_cpu(f, c)

\* HybridSearchEngine.search_in_file; below 1 MiB the text searched is the
\* first read if that was the whole file, else what f.read() returns after it
search_in_file(f, c, g) ==
    IF OverCeiling(f) THEN FALSE
    ELSE IF BinaryProbe(f) THEN FALSE
    ELSE IF f.size < MiB
         THEN PatternSearch(f, c, IF Min(ProbeLen, f.size) = f.size THEN 0 ELSE ProbeLen, f.size)
    ELSE IF g.use_gpu /\ f.size >= MinFileSizeForGpu /\ GPU_AVAILABLE(g)
         THEN search_in_text_gpu(f, c, g)
    ELSE PatternSearch(f, c, 0, f.size)

\* _check_file when the flag is never set: "none", "exc" or the match_reason
CheckFile(f, c, eng) ==
    LET r == CheapFilters(f, c)
    IN  IF r = "raise" THEN "exc"
        ELSE IF r # "pass" THEN "none"
        ELSE IF ~HasContentPattern(c) THEN NameOnly
        ELSE IF SearchInFile(f, c, eng) THEN ContentMatch
        ELSE "none"

SearchResult(f, reason) ==
    [path |-> f.path, size |-> f.size, modified |-> f.mtime, match_reason |-> reason]

-----------------------------------------------------------------------------
(* The state machine *)

Running == pc \notin {"idle", "done", "raised"}

File(t) == files_to_check[t]

\* a directory is not walked when it, or a directory above it other than the
\* root, has a name starting with '.'  (dirs[:] = [d for d in dirs if ...])
PrunedShallow(d) == d # 1 /\ tree[d].dot

RECURSIVE Pruned(_)
Pruned(d) == d # 1 /\ (tree[d].dot \/ Pruned(tree[d].parent))

\* the directory os.walk yields after directory d (0: the walk is over)
NextDir(d) ==
    LET later == {e \in (d + 1)..Len(tree) : ~Pruned(e)}
    IN  IF later = {} THEN 0 ELSE CHOOSE e \in later : \A g \in later : e <= g

Observe ==
    /\ observed' = TRUE
    /\ resultsAtObs' = IF observed THEN resultsAtObs ELSE results

\* FileSearcherApp._stop_search -> FileSearchEngine.stop, from another thread
Stop ==
    /\ pc \notin {"done", "raised"}
    /\ stop_flag' = TRUE
    /\ stop_requested' = (stop_requested \/ pc # "idle")
    /\ stopped_idle' = IF pc = "idle" THEN stopped_idle \cup {"fresh"} ELSE stopped_idle
    /\ UNCHANGED <<engine, gpu, max_workers, tree, crit, pc, wd, wf, files_to_check,
                   fut, yieldq, cur, results, processed, calls, observed, listed,
                   checked, resultsAtObs, opened, stats, previous>>

\* the search thread is started and calls search()
SearchEnter ==
    /\ pc = "idle"
    /\ pc' = "entered"
    /\ UNCHANGED <<engine, gpu, max_workers, tree, crit, stop_flag, wd, wf,
                   files_to_check, fut, yieldq, cur, results, processed, calls,
                   stop_requested, observed, listed, checked, resultsAtObs,
                   opened, stopped_idle, stats, previous>>

ClearFlagSkipped ==
    /\ pc = "entered"
    /\ results' = <<>>
    /\ pc' = "compile"
    /\ UNCHANGED <<engine, gpu, max_workers, tree, crit, stop_flag, wd, wf,
                   files_to_check, fut, yieldq, cur, processed, calls,
                   stop_requested, observed, listed, checked, resultsAtObs,
                   opened, stopped_idle, stats, previous>>

\* self.stop_flag.clear(); results = []
ClearFlag ==
    /\ pc = "entered"
    /\ stop_flag' = FALSE
    /\ results' = <<>>
    /\ pc' = "compile"
    /\ UNCHANGED <<engine, gpu, max_workers, tree, crit, wd, wf, files_to_check, fut,
                   yieldq, cur, processed, calls, stop_requested, observed,
                   listed, checked, resultsAtObs,
                   opened, stopped_idle, stats, previous>>

\* re.compile of both patterns; raise ValueError
Compile ==
    /\ pc = "compile"
    /\ pc' = IF CompileFails(crit) THEN "raised" ELSE "walk"
    /\ UNCHANGED <<engine, gpu, max_workers, tree, crit, stop_flag, wd, wf,
                   files_to_check, fut, yieldq, cur, results, processed, calls,
                   stop_requested, observed, listed, checked, resultsAtObs,
                   opened, stopped_idle, stats, previous>>

\* one turn of `for root, dirs, files in os.walk(root_path)`: the generator
\* lists the next directory, then the body checks the flag
WalkDir ==
    /\ pc = "walk"
    /\ LET d == NextDir(wd)
       IN  IF d = 0
           THEN /\ pc' = "submit"
                /\ UNCHANGED <<wd, wf, listed, observed, resultsAtObs>>
           ELSE /\ listed' = listed \cup {d}
                /\ IF stop_flag
                   THEN /\ pc' = "submit"
                        /\ Observe
                        /\ UNCHANGED <<wd, wf>>
                   ELSE /\ pc' = "walkfiles"
                        /\ wd' = d
                        /\ wf' = 0
                        /\ UNCHANGED <<observed, resultsAtObs>>
    /\ UNCHANGED <<engine, gpu, max_workers, tree, crit, stop_flag, files_to_check,
                   fut, yieldq, cur, results, processed, calls, stop_requested,
                   checked, opened, stopped_idle, stats, previous>>

\* one turn of `for file in files`
WalkFile ==
    /\ pc = "walkfiles"
    /\ IF wf = Len(tree[wd].files)
       THEN /\ pc' = "walk"
            /\ UNCHANGED <<wf, files_to_check, observed, resultsAtObs>>
       ELSE IF stop_flag
       THEN /\ pc' = "walk"
            /\ Observe
            /\ UNCHANGED <<wf, files_to_check>>
       ELSE /\ files_to_check' = Append(files_to_check, tree[wd].files[wf + 1])
            /\ wf' = wf + 1
            /\ UNCHANGED <<pc, observed, resultsAtObs>>
    /\ UNCHANGED <<engine, gpu, max_workers, tree, crit, stop_flag, wd, fut, yieldq,
                   cur, results, processed, calls, stop_requested, listed,
                   checked, opened, stopped_idle, stats, previous>>

\* executor.submit(self._check_file, file_path, ...) for the next file
Submit ==
    /\ pc = "submit"
    /\ Len(fut) < Len(files_to_check)
    /\ fut' = Append(fut, [st |-> "pending", stage |-> "", off |-> 0, out |-> ""])
    /\ UNCHANGED <<engine, gpu, max_workers, tree, crit, stop_flag, pc, wd, wf,
                   files_to_check, yieldq, cur, results, processed, calls,
                   stop_requested, observed, listed, checked, resultsAtObs,
                   opened, stopped_idle, stats, previous>>

\* the members of a set of numbers in increasing order
Ascending(S) ==
    [i \in 1..Cardinality(S) |-> CHOOSE x \in S : Cardinality({y \in S : y <= x}) = i]

Reverse(s) == [i \in 1..Len(s) |-> s[Len(s) + 1 - i]]

\* as_completed(futures) is called: the futures already finished are yielded
\* first, in the iteration order of a set (here: either index order)
AsCompleted ==
    /\ pc = "submit"
    /\ Len(fut) = Len(files_to_check)
    /\ LET fin == Ascending({t \in 1..Len(fut) : fut[t].st = "finished"})
       IN  \E rev \in BOOLEAN : yieldq' = IF rev THEN Reverse(fin) ELSE fin
    /\ pc' = "collect"
    /\ UNCHANGED <<engine, gpu, max_workers, tree, crit, stop_flag, wd, wf,
                   files_to_check, fut, cur, results, processed, calls,
                   stop_requested, observed, listed, checked, resultsAtObs,
                   opened, stopped_idle, stats, previous>>

CollectNeverBreaks == FALSE

\* `if self.stop_flag.is_set(): break` (line 185)
CollectShouldBreak == stop_flag

\* as_completed yields a finished future; `if self.stop_flag.is_set(): break`
CollectNext ==
    /\ pc = "collect"
    /\ yieldq # <<>>
    /\ IF CollectShouldBreak
       THEN /\ pc' = "shutdown"
            /\ Observe
            /\ UNCHANGED <<yieldq, cur>>
       ELSE /\ pc' = "handle"
            /\ cur' = Head(yieldq)
            /\ yieldq' = Tail(yieldq)
            /\ UNCHANGED <<observed, resultsAtObs>>
    /\ UNCHANGED <<engine, gpu, max_workers, tree, crit, stop_flag, wd, wf,
                   files_to_check, fut, results, processed, calls,
                   stop_requested, listed, checked, opened, stopped_idle, stats, previous>>

\* as_completed is exhausted
CollectEnd ==
    /\ pc = "collect"
    /\ processed = Len(fut)
    /\ pc' = "shutdown"
    /\ UNCHANGED <<engine, gpu, max_workers, tree, crit, stop_flag, wd, wf,
                   files_to_check, fut, yieldq, cur, results, processed, calls,
                   stop_requested, observed, listed, checked, resultsAtObs,
                   opened, stopped_idle, stats, previous>>

MatchedAlways(out) == out # "exc"

MatchedNameOnly(out) == out = NameOnly

\* `if result:` (line 190)
Matched(out) == out \in {NameOnly, ContentMatch}

Call(r, p) == [result |-> r, processed |-> p, total |-> Len(files_to_check)]

ResultCallsAfterFirst(out, r, p) ==
    IF crit.callback /\ Matched(out) /\ p > 0 THEN <<Call(Some(r), p)>> ELSE <<>>

\* the callback invocations of one turn of the loop, lines 188-199
ResultCalls(out, r, p) ==
    IF crit.callback /\ Matched(out) THEN <<Call(Some(r), p)>>
    ELSE <<>>

HeartbeatBeforeIncrement(p) ==
    IF crit.callback /\ (p - 1) % HeartbeatEvery = 0 THEN <<Call(None, p)>> ELSE <<>>

HeartbeatCalls(p) ==
    IF crit.callback /\ p % HeartbeatEvery = 0 THEN <<Call(None, p)>> ELSE <<>>

CollectorCatchesNothing == FALSE

\* `except Exception: pass` (line 194) catches whatever future.result() raises
CollectorCatches == TRUE

\* the body of the collection loop after the flag check, lines 188-199
Handle ==
    /\ pc = "handle"
    /\ LET out == fut[cur].out
           r == SearchResult(File(cur), out)
       IN  IF out = "exc" /\ ~CollectorCatches
           THEN /\ pc' = "raised"
                /\ UNCHANGED <<results, processed, calls>>
           ELSE /\ results' = IF Matched(out) THEN Append(results, r) ELSE results
                /\ processed' = processed + 1
                /\ calls' = calls \o ResultCalls(out, r, processed)
                                  \o HeartbeatCalls(processed + 1)
                /\ pc' = "collect"
    /\ cur' = 0
    /\ UNCHANGED <<engine, gpu, max_workers, tree, crit, stop_flag, wd, wf,
                   files_to_check, fut, yieldq, stop_requested, observed, listed,
                   checked, resultsAtObs,
                   opened, stopped_idle, stats, previous>>

\* leaving `with ThreadPoolExecutor(...)`: shutdown(wait=True), return results
Shutdown ==
    /\ pc = "shutdown"
    /\ \A t \in 1..Len(fut) : fut[t].st = "finished"
    /\ pc' = "done"
    /\ UNCHANGED <<engine, gpu, max_workers, tree, crit, stop_flag, wd, wf,
                   files_to_check, fut, yieldq, cur, results, processed, calls,
                   stop_requested, observed, listed, checked, resultsAtObs,
                   opened, stopped_idle, stats, previous>>

-----------------------------------------------------------------------------
(* The worker pool *)

NoWorkerFree == FALSE

\* ThreadPoolExecutor(max_workers=self.max_workers): a thread is free to take
\* a task while fewer than max_workers checks are running
FreeWorker == Cardinality({t \in 1..Len(fut) : fut[t].st = "running"}) < max_workers

FirstPending(t) ==
    /\ t \in 1..Len(fut)
    /\ fut[t].st = "pending"
    /\ \A u \in 1..(t - 1) : fut[u].st # "pending"

FinishYieldedTwice(t, out) ==
    /\ fut' = [fut EXCEPT ![t] = [st |-> "finished", stage |-> "", off |-> 0, out |-> out]]
    /\ yieldq' = IF pc \in {"collect", "handle"} THEN yieldq \o <<t, t>> ELSE yieldq

\* the task's future gets its outcome; as_completed's waiter is told
Finish(t, out) ==
    /\ fut' = [fut EXCEPT ![t] = [st |-> "finished", stage |-> "", off |-> 0, out |-> out]]
    /\ yieldq' = IF pc \in {"collect", "handle"} THEN Append(yieldq, t) ELSE yieldq

Goto(t, stage, off) ==
    /\ fut' = [fut EXCEPT ![t] = [st |-> "running", stage |-> stage, off |-> off, out |-> ""]]
    /\ UNCHANGED yieldq

\* whether _check_file reads the flag on its first line (file_searcher.py:210;
\* file_searcher_CPUsearcher.py has no such line)
CheckReadsFlag(eng) == eng = "file_searcher"

\* whether _search_in_file reads the flag (file_searcher.py:275, 315, 336)
ScanReadsFlag(eng) == eng = "file_searcher"

\* what _search_in_file returns when it finds the flag set
StoppedScanResult == "none"

\* a worker takes the next task and runs _check_file up to the content scan
CheckBegin(t) ==
    /\ FirstPending(t)
    /\ FreeWorker
    /\ IF CheckReadsFlag(engine) /\ stop_flag
       THEN /\ Finish(t, "none")
            /\ UNCHANGED checked
       ELSE /\ checked' = checked \cup {t}
            /\ LET r == CheapFilters(File(t), crit)
               IN  IF r = "raise" THEN Finish(t, "exc")
                   ELSE IF r # "pass" THEN Finish(t, "none")
                   ELSE IF ~HasContentPattern(crit) THEN Finish(t, NameOnly)
                   ELSE Goto(t, "scan", 0)
    /\ UNCHANGED <<engine, gpu, max_workers, tree, crit, stop_flag, pc, wd, wf,
                   files_to_check, cur, results, processed, calls,
                   stop_requested, observed, listed, resultsAtObs,
                   opened, stopped_idle, stats, previous>>

\* _search_in_file from its first line to the end of the small-file tier
ScanBegin(t) ==
    /\ t \in 1..Len(fut)
    /\ fut[t].st = "running"
    /\ fut[t].stage = "scan"
    /\ IF ScanReadsFlag(engine) /\ stop_flag
       THEN /\ Finish(t, StoppedScanResult)
            /\ UNCHANGED opened
       ELSE /\ opened' = IF OverCeiling(File(t)) THEN opened ELSE opened \cup {t}
            /\ IF UsesGpu(engine, gpu)
               THEN IF OverCeiling(File(t)) \/ BinaryProbe(File(t)) THEN Finish(t, "none")
                    ELSE Goto(t, "hybrid", 0)
               ELSE LET r == ScanEnter(File(t), crit, engine)
                    IN  CASE r = "true" -> Finish(t, ContentMatch)
                          [] r = "false" -> Finish(t, "none")
                          [] r = "medium" -> Goto(t, "medium", 0)
                          [] r = "chunk" -> Goto(t, "chunk", 0)
    /\ UNCHANGED <<engine, gpu, max_workers, tree, crit, stop_flag, pc, wd, wf,
                   files_to_check, cur, results, processed, calls,
                   stop_requested, observed, listed, checked, resultsAtObs,
                   stopped_idle, stats, previous>>

\* the counters HybridSearchEngine.search_in_file adds to for file f
SearchesCounter(f, g) ==
    IF f.size >= MiB /\ g.use_gpu /\ f.size >= MinFileSizeForGpu /\ GPU_AVAILABLE(g)
    THEN "gpu_searches" ELSE "cpu_searches"

HitsCounter(f, g) ==
    IF f.size >= MiB /\ g.use_gpu /\ f.size >= MinFileSizeForGpu /\ GPU_AVAILABLE(g)
    THEN "gpu_hits" ELSE "cpu_hits"

\* HybridSearchEngine.search_in_file after the probe: the data is read and
\* the pattern applied, with no look at the flag; `self.stats[...] += 1`
\* begins by loading the counter (kept in the task's off)
HybridMatch(t) ==
    /\ t \in 1..Len(fut)
    /\ fut[t].st = "running"
    /\ fut[t].stage = "hybrid"
    /\ Goto(t, "count", stats[SearchesCounter(File(t), gpu)])
    /\ UNCHANGED <<engine, gpu, max_workers, tree, crit, stop_flag, pc, wd, wf,
                   files_to_check, cur, results, processed, calls,
                   stop_requested, observed, listed, checked, resultsAtObs,
                   opened, stopped_idle, stats, previous>>

\* the searches counter is stored; `if found:` the hits counter is loaded
HybridCount(t) ==
    /\ t \in 1..Len(fut)
    /\ fut[t].st = "running"
    /\ fut[t].stage = "count"
    /\ stats' = [stats EXCEPT ![SearchesCounter(File(t), gpu)] = fut[t].off + 1]
    /\ IF search_in_file(File(t), crit, gpu)
       THEN Goto(t, "hit", stats[HitsCounter(File(t), gpu)])
       ELSE Finish(t, "none")
    /\ UNCHANGED <<engine, gpu, max_workers, tree, crit, stop_flag, pc, wd, wf,
                   files_to_check, cur, results, processed, calls,
                   stop_requested, observed, listed, checked, resultsAtObs,
                   opened, stopped_idle, previous>>

\* the hits counter is stored; `return found`
HybridHit(t) ==
    /\ t \in 1..Len(fut)
    /\ fut[t].st = "running"
    /\ fut[t].stage = "hit"
    /\ stats' = [stats EXCEPT ![HitsCounter(File(t), gpu)] = fut[t].off + 1]
    /\ Finish(t, ContentMatch)
    /\ UNCHANGED <<engine, gpu, max_workers, tree, crit, stop_flag, pc, wd, wf,
                   files_to_check, cur, results, processed, calls,
                   stop_requested, observed, listed, checked, resultsAtObs,
                   opened, stopped_idle, previous>>

\* the bounded full read, lines 309-323
ScanMedium(t) ==
    /\ t \in 1..Len(fut)
    /\ fut[t].st = "running"
    /\ fut[t].stage = "medium"
    /\ IF stop_flag THEN Finish(t, StoppedScanResult)
       ELSE IF PatternSearch(File(t), crit, 0, File(t).size) THEN Finish(t, ContentMatch)
       ELSE Finish(t, "none")
    /\ UNCHANGED <<engine, gpu, max_workers, tree, crit, stop_flag, pc, wd, wf,
                   files_to_check, cur, results, processed, calls,
                   stop_requested, observed, listed, checked, resultsAtObs,
                   opened, stopped_idle, stats, previous>>

\* one turn of the chunk loop, lines 334-356
ScanChunk(t) ==
    /\ t \in 1..Len(fut)
    /\ fut[t].st = "running"
    /\ fut[t].stage = "chunk"
    /\ LET off == fut[t].off
           nxt == NextOffset(File(t), crit, off)
       IN  IF stop_flag THEN Finish(t, StoppedScanResult)
           ELSE IF ChunkHit(File(t), crit, off) THEN Finish(t, ContentMatch)
           ELSE IF nxt >= File(t).size THEN Finish(t, "none")
           ELSE Goto(t, "chunk", nxt)
    /\ UNCHANGED <<engine, gpu, max_workers, tree, crit, stop_flag, pc, wd, wf,
                   files_to_check, cur, results, processed, calls,
                   stop_requested, observed, listed, checked, resultsAtObs,
                   opened, stopped_idle, stats, previous>>

-----------------------------------------------------------------------------
(* Inputs *)

TextFile(path, name, size, mtime, mpos, mlen) ==
    [path |-> path, name |-> name, regular |-> TRUE, fault |-> "none",
     size |-> size, mtime |-> mtime, nul |-> FALSE, mpos |-> mpos, mlen |-> mlen,
     exact |-> TRUE, cfault |-> -1]

Dir(parent, dot, files) == [parent |-> parent, dot |-> dot, files |-> files]

Defaults ==
    [name_pattern |-> <<"*">>, use_regex_name |-> FALSE, extensions |-> None,
     content_regex |-> None, min_size |-> 0, max_size |-> None,
     modified_after |-> None, modified_before |-> None,
     case_sensitive |-> FALSE, callback |-> TRUE]

\* root: a.t (10 bytes, the pattern matches at 2..6), B.T (1 MiB + 10 bytes,
\* the pattern matches across offset 1 MiB); root/.git: a.t; root/d: a (empty)
TreeA ==
    << Dir(0, FALSE, << TextFile(1, <<"a", ".", "t">>, 10, 5, 2, 5),
                        TextFile(2, <<"B", ".", "T">>, MiB + 10, 9, MiB - 2, 5) >>),
       Dir(1, TRUE,  << TextFile(3, <<"a", ".", "t">>, 10, 5, 2, 5) >>),
       Dir(1, FALSE, << TextFile(4, <<"a">>, 0, 1, 0, 0) >>) >>

\* root: a file os.stat fails on, a file whose check raises something else,
\* a readable file, and a file that is gone when it is checked
TreeB ==
    << Dir(0, FALSE, << [TextFile(5, <<"a", ".", "t">>, 10, 5, 2, 5) EXCEPT !.fault = "os"],
                        [TextFile(6, <<"a", ".", "t">>, 10, 5, 2, 5) EXCEPT !.fault = "other"],
                        TextFile(7, <<"a", ".", "t">>, 9000, 5, 8190, 5),
                        [TextFile(8, <<"a", ".", "t">>, 10, 5, 2, 5) EXCEPT !.regular = FALSE] >>) >>

Trees == {TreeA, TreeB}

Criteria ==
    { Defaults,
      [Defaults EXCEPT !.callback = FALSE],
      [Defaults EXCEPT !.name_pattern = <<"A", "*">>, !.extensions = << <<".", "T">>, <<" ">> >>],
      [Defaults EXCEPT !.name_pattern = <<"a">>, !.use_regex_name = TRUE, !.case_sensitive = TRUE],
      [Defaults EXCEPT !.name_pattern = <<"*", "a">>, !.use_regex_name = TRUE],
      [Defaults EXCEPT !.name_pattern = <<"[">>],
      [Defaults EXCEPT !.content_regex = <<"x">>],
      [Defaults EXCEPT !.content_regex = <<"x", ".*?">>],
      [Defaults EXCEPT !.content_regex = <<"(">>],
      [Defaults EXCEPT !.max_size = Some(0)],
      [Defaults EXCEPT !.min_size = 5, !.max_size = Some(0)],
      [Defaults EXCEPT !.min_size = 11, !.max_size = Some(10)],
      [Defaults EXCEPT !.min_size = 5, !.max_size = Some(10),
                       !.modified_after = Some(3), !.modified_before = Some(7)] }

StartWith(eng, g, w, t, c) ==
    /\ engine = eng
    /\ gpu = g
    /\ max_workers = w
    /\ tree = t
    /\ crit = c
    /\ stop_flag = FALSE
    /\ pc = "idle"
    /\ wd = 0
    /\ wf = 0
    /\ files_to_check = <<>>
    /\ fut = <<>>
    /\ yieldq = <<>>
    /\ cur = 0
    /\ results = <<>>
    /\ processed = 0
    /\ calls = <<>>
    /\ stop_requested = FALSE
    /\ observed = FALSE
    /\ listed = {}
    /\ checked = {}
    /\ resultsAtObs = <<>>
    /\ opened = {}
    /\ stopped_idle = {}
    /\ stats = [gpu_searches |-> 0, cpu_searches |-> 0, gpu_hits |-> 0, cpu_hits |-> 0]
    /\ previous = <<>>

\* FileSearchEngine(max_workers=w): use_gpu is False
Start(eng, w, t, c) == StartWith(eng, NoGpu, w, t, c)

Init ==
    \E eng \in {"file_searcher", "CPUsearcher"}, w \in 1..MaxWorkers,
       t \in Trees, c \in Criteria : Start(eng, w, t, c)

Search ==
    \/ SearchEnter
    \/ ClearFlag
    \/ Compile
    \/ WalkDir
    \/ WalkFile
    \/ Submit
    \/ AsCompleted
    \/ CollectNext
    \/ CollectEnd
    \/ Handle
    \/ Shutdown

Next ==
    \/ Search
    \/ \E t \in 1..Len(fut) : CheckBegin(t)
    \/ \E t \in 1..Len(fut) : ScanBegin(t)
    \/ \E t \in 1..Len(fut) : ScanMedium(t)
    \/ \E t \in 1..Len(fut) : ScanChunk(t)
    \/ Stop

Spec == Init /\ [][Next]_vars

\* the steps of the pool's worker threads
Worker ==
    \E t \in 1..Len(fut) :
        CheckBegin(t) \/ ScanBegin(t) \/ ScanMedium(t) \/ ScanChunk(t)

\* the thread that called search() keeps running, and so do the worker
\* threads: a check that can take a step eventually takes one
SpecFair == Spec /\ WF_vars(Search) /\ WF_vars(Worker)

-----------------------------------------------------------------------------
(* The engine used again: stop() after search() has returned or raised, and *)
(* search() called once more on the same engine with the same arguments     *)

\* stop() while no search is running
StopReturned ==
    /\ pc \in {"done", "raised"}
    /\ stop_flag' = TRUE
    /\ stopped_idle' = stopped_idle \cup {"returned"}
    /\ UNCHANGED <<engine, gpu, max_workers, tree, crit, pc, wd, wf, files_to_check,
                   fut, yieldq, cur, results, processed, calls, stop_requested,
                   observed, listed, checked, resultsAtObs, opened, stats, previous>>

\* search() is called again: a new frame, the same self
SearchAgain ==
    /\ pc \in {"done", "raised"}
    /\ pc' = "entered"
    /\ wd' = 0
    /\ wf' = 0
    /\ files_to_check' = <<>>
    /\ fut' = <<>>
    /\ yieldq' = <<>>
    /\ cur' = 0
    /\ results' = <<>>
    /\ processed' = 0
    /\ calls' = <<>>
    /\ stop_requested' = FALSE
    /\ observed' = FALSE
    /\ listed' = {}
    /\ checked' = {}
    /\ resultsAtObs' = <<>>
    /\ opened' = {}
    /\ UNCHANGED <<engine, gpu, max_workers, tree, crit, stop_flag, stopped_idle,
                   stats, previous>>

NextReuse ==
    \/ Next
    \/ StopReturned
    \/ SearchAgain

SpecReuse == Init /\ [][NextReuse]_vars

-----------------------------------------------------------------------------
(* Long searches that are never stopped: up to BigFiles candidates in one   *)
(* directory, of which those of size 2 match.  One worker, which is always  *)
(* scheduled before the search thread (one schedule of the many Spec        *)
(* explores on small inputs).                                               *)

BigTree(n) ==
    << Dir(0, FALSE, [i \in 1..n |-> TextFile(i, <<"a">>, i % 7, 1, 0, 0)]) >>

BigSizes == {0, HeartbeatEvery - 1, HeartbeatEvery, BigFiles}

InitBig ==
    \E n \in BigSizes :
        Start("file_searcher", 1, BigTree(n),
              [Defaults EXCEPT !.min_size = 2, !.max_size = Some(2)])

NoPending == \A t \in 1..Len(fut) : fut[t].st # "pending"

NextBig ==
    \/ \E t \in 1..Len(fut) : CheckBegin(t)
    \/ NoPending /\ Search

SpecBig == InitBig /\ [][NextBig]_vars

-----------------------------------------------------------------------------
(* A single file with a content pattern: the content scan on files whose    *)
(* match lies across a chunk boundary k * chunk_size, k in 1..MaxBoundary   *)

ScanPatterns == { <<"x">>, <<"x", ".*?">> }

ScanFiles(p) ==
    LET cs == ChunkSize([content_regex |-> p])
    IN  UNION { { TextFile(1, <<"a">>, size, 1, k * cs - 2, len) :
                    size \in {k * cs + 3, (MaxBoundary + 1) * cs + 1}, len \in {0, 5} } :
                k \in 1..MaxBoundary }

\* matches of other lengths around the boundary k * chunk_size: beginning
\* where the overlap begins, one byte before it, and at the boundary; ending
\* at the boundary; and at the very start and end of the file
LongMatchFiles(p) ==
    LET cs == ChunkSize([content_regex |-> p])
    IN  UNION { { TextFile(1, <<"a">>, (k + 1) * cs - 7, 1, m[1], m[2]) :
                    m \in { <<k * cs - Overlap, Overlap + 1>>,
                            <<k * cs - Overlap - 1, Overlap + 2>>,
                            <<k * cs - Overlap - 1, Overlap + 1>>,
                            <<k * cs, Overlap + 2>>,
                            <<0, 1>>,
                            <<(k + 1) * cs - 8, 1>> } } :
                k \in 1..MaxBoundary }

\* three chunks, the pattern raising on the first or the second of them; the
\* match inside the third chunk, inside the second, in the overlap the third
\* chunk reads again, or nowhere
ChunkFaultFiles(p) ==
    LET cs == ChunkSize([content_regex |-> p])
    IN  { [TextFile(1, <<"a">>, 3 * cs, 1, m[1], m[2]) EXCEPT !.cfault = o] :
            m \in { <<2 * cs + 10, 5>>, <<cs + 10, 5>>, <<2 * cs - 100, 5>>, <<0, 0>> },
            o \in {0, cs} }

InitScan ==
    \E p \in ScanPatterns :
        \E f \in ScanFiles(p) \cup LongMatchFiles(p) \cup ChunkFaultFiles(p) :
            Start("file_searcher", 1, << Dir(0, FALSE, <<f>>) >>,
                  [Defaults EXCEPT !.content_regex = p])

NextScan ==
    \/ Search
    \/ \E t \in 1..Len(fut) : CheckBegin(t)
    \/ \E t \in 1..Len(fut) : ScanBegin(t)
    \/ \E t \in 1..Len(fut) : ScanMedium(t)
    \/ \E t \in 1..Len(fut) : ScanChunk(t)

SpecScan == InitScan /\ [][NextScan]_vars

-----------------------------------------------------------------------------
(* The content matchers on one file: the CPU tiers of both engines and the  *)
(* hybrid matcher with every combination of GPU libraries and fault        *)

GpuConfigs ==
    {g \in [use_gpu : {TRUE}, cupy : BOOLEAN, numba : BOOLEAN, fault : GpuFaults] :
        g.fault # "none" => GPU_AVAILABLE(g)}

Matchers ==
    {<<"CPUsearcher", NoGpu>>, <<"file_searcher", NoGpu>>}
        \cup {<<"file_searcher", g>> : g \in GpuConfigs}

MatchPatterns == { <<"x">>, <<"x", ".*?">>, <<"x", "(?=y)">> }

\* the pattern's text in its own letter case and in another one
BothCases(f) == {f, [f EXCEPT !.exact = FALSE]}

MatchFiles ==
    UNION { BothCases(f) :
              f \in { TextFile(1, <<"a">>, 10, 1, 2, 5),
                      TextFile(1, <<"a">>, 9000, 1, 100, 5),
                      TextFile(1, <<"a">>, 9000, 1, 8500, 5),
                      TextFile(1, <<"a">>, 2 * MiB, 1, MiB, 5),
                      TextFile(1, <<"a">>, 6 * MiB, 1, 5 * MiB + 5, 5),
                      TextFile(1, <<"a">>, SizeCeiling, 1, SizeCeiling - 5, 5),
                      TextFile(1, <<"a">>, SizeCeiling + 1, 1, 2, 5),
                      TextFile(1, <<"a">>, 101 * MiB, 1, MiB, 5) } }
      \cup { [TextFile(1, <<"a">>, 9000, 1, 8500, 5) EXCEPT !.nul = TRUE],
             [TextFile(1, <<"a">>, 2 * MiB, 1, MiB, 5) EXCEPT !.nul = TRUE],
             [TextFile(1, <<"a">>, 6 * MiB, 1, 5 * MiB + 5, 5) EXCEPT !.nul = TRUE] }

InitMatch ==
    \E m \in Matchers, p \in MatchPatterns, cs \in BOOLEAN, f \in MatchFiles :
        StartWith(m[1], m[2], 1, << Dir(0, FALSE, <<f>>) >>,
                  [Defaults EXCEPT !.content_regex = p, !.case_sensitive = cs])

NextMatch ==
    \/ NextScan
    \/ \E t \in 1..Len(fut) : HybridMatch(t)
    \/ \E t \in 1..Len(fut) : HybridCount(t)
    \/ \E t \in 1..Len(fut) : HybridHit(t)

SpecMatch == InitMatch /\ [][NextMatch]_vars

-----------------------------------------------------------------------------
(* The same file checked twice with the same criteria: search() is called a *)
(* second time on the same engine; the flag is never set.  Whether a step   *)
(* of the GPU path faults may differ from one moment to the next.           *)

\* search() is called again; the outcomes of the checks of the first call are
\* kept for comparison
Recheck ==
    /\ pc = "done"
    /\ previous = <<>>
    /\ previous' = [t \in 1..Len(fut) |-> fut[t].out]
    /\ pc' = "entered"
    /\ wd' = 0
    /\ wf' = 0
    /\ files_to_check' = <<>>
    /\ fut' = <<>>
    /\ yieldq' = <<>>
    /\ cur' = 0
    /\ results' = <<>>
    /\ processed' = 0
    /\ calls' = <<>>
    /\ listed' = {}
    /\ checked' = {}
    /\ opened' = {}
    /\ UNCHANGED <<engine, gpu, max_workers, tree, crit, stop_flag, stop_requested,
                   observed, resultsAtObs, stopped_idle, stats>>

\* the GPU begins or ceases to fault (its memory fills up or is freed)
GpuFaultChanges ==
    /\ UsesGpu(engine, gpu) /\ GPU_AVAILABLE(gpu)
    /\ \E fl \in GpuFaults : gpu' = [gpu EXCEPT !.fault = fl]
    /\ UNCHANGED <<engine, max_workers, tree, crit, stop_flag, pc, wd, wf,
                   files_to_check, fut, yieldq, cur, results, processed, calls,
                   stop_requested, observed, listed, checked, resultsAtObs,
                   opened, stopped_idle, stats, previous>>

TwiceFiles ==
    UNION { BothCases(f) :
              f \in { TextFile(1, <<"a">>, 10, 1, 2, 5),
                      TextFile(1, <<"a">>, 2 * MiB, 1, MiB, 5),
                      TextFile(1, <<"a">>, 6 * MiB, 1, 5 * MiB + 5, 5) } }

InitTwice ==
    \E m \in Matchers, cs \in BOOLEAN, f \in TwiceFiles :
        StartWith(m[1], m[2], 1, << Dir(0, FALSE, <<f>>) >>,
                  [Defaults EXCEPT !.content_regex = <<"x">>, !.case_sensitive = cs])

NextTwice ==
    \/ NextMatch
    \/ Recheck
    \/ GpuFaultChanges

SpecTwice == InitTwice /\ [][NextTwice]_vars

-----------------------------------------------------------------------------
(* Hidden directories: the walk alone, with stop() at any moment *)

\* .root: .a; .root/.h: a; .root/.h/sub: a; .root/d: .a; .root/d/.h: a
TreeHidden ==
    << Dir(0, TRUE,  << TextFile(1, <<".", "a">>, 10, 5, 2, 5) >>),
       Dir(1, TRUE,  << TextFile(2, <<"a">>, 10, 5, 2, 5) >>),
       Dir(2, FALSE, << TextFile(3, <<"a">>, 10, 5, 2, 5) >>),
       Dir(1, FALSE, << TextFile(4, <<".", "a">>, 10, 5, 2, 5) >>),
       Dir(4, TRUE,  << TextFile(5, <<"a">>, 10, 5, 2, 5) >>) >>

InitWalk ==
    \E eng \in {"file_searcher", "CPUsearcher"}, w \in 1..MaxWorkers :
        Start(eng, w, TreeHidden, Defaults)

NextWalk ==
    \/ Search
    \/ \E t \in 1..Len(fut) : CheckBegin(t)
    \/ Stop

SpecWalk == InitWalk /\ [][NextWalk]_vars

-----------------------------------------------------------------------------
(* A content pattern together with each of the cheap filters *)

FilterCriteria ==
    { Defaults,
      [Defaults EXCEPT !.name_pattern = <<"A", "*">>],
      [Defaults EXCEPT !.extensions = << <<"t">> >>],
      [Defaults EXCEPT !.min_size = 11],
      [Defaults EXCEPT !.max_size = Some(5)],
      [Defaults EXCEPT !.max_size = Some(0)],
      [Defaults EXCEPT !.modified_after = Some(6)],
      [Defaults EXCEPT !.modified_before = Some(4)] }

InitOrder ==
    \E eng \in {"file_searcher", "CPUsearcher"}, t \in Trees,
       c \in FilterCriteria, p \in {None, <<"x">>, <<"x", ".*?">>} :
        Start(eng, 1, t, [c EXCEPT !.content_regex = p])

SpecOrder == InitOrder /\ [][Next]_vars

-----------------------------------------------------------------------------
(* One file whose content scan may be overtaken by stop(), on every matcher *)

CancelFiles ==
    { TextFile(1, <<"a">>, 10, 1, 2, 5),
      TextFile(1, <<"a">>, 9000, 1, 8500, 5),
      TextFile(1, <<"a">>, 2 * MiB, 1, MiB, 5),
      TextFile(1, <<"a">>, 11 * MiB, 1, 10 * MiB + 5, 5) }

InitCancel ==
    \E m \in Matchers, p \in ScanPatterns, f \in CancelFiles :
        StartWith(m[1], m[2], 1, << Dir(0, FALSE, <<f>>) >>,
                  [Defaults EXCEPT !.content_regex = p])

NextCancel ==
    \/ NextMatch
    \/ Stop

SpecCancel == InitCancel /\ [][NextCancel]_vars

-----------------------------------------------------------------------------
(* Several files checked concurrently by workers that share one hybrid      *)
(* engine; the search is never stopped                                      *)

\* root: text files of 10 bytes, 9000 bytes, 2 MiB and 6 MiB and a binary one
TreeStats ==
    << Dir(0, FALSE, << TextFile(1, <<"a">>, 10, 1, 2, 5),
                        TextFile(2, <<"a">>, 9000, 1, 0, 0),
                        TextFile(3, <<"a">>, 2 * MiB, 1, MiB, 5),
                        TextFile(4, <<"a">>, 6 * MiB, 1, 0, 0),
                        [TextFile(5, <<"a">>, 10, 1, 2, 5) EXCEPT !.nul = TRUE] >>) >>

InitStats ==
    \E w \in 1..MaxWorkers, u \in BOOLEAN, cu \in BOOLEAN :
        StartWith("file_searcher",
                  [use_gpu |-> u, cupy |-> cu, numba |-> FALSE, fault |-> "none"],
                  w, TreeStats, [Defaults EXCEPT !.content_regex = <<"x">>])

SpecStats == InitStats /\ [][NextMatch]_vars

-----------------------------------------------------------------------------
(* Vocabulary of the properties *)

\* the files a complete walk enumerates
WalkedFiles ==
    UNION { {tree[d].files[i] : i \in 1..Len(tree[d].files)} :
              d \in {e \in 1..Len(tree) : ~Pruned(e)} }

ResultPaths == {results[i].path : i \in 1..Len(results)}

Enumerated == {files_to_check[i] : i \in 1..Len(files_to_check)}

\* the predicates as the specification states them
SizeInRange(f, c) ==
    f.size >= c.min_size /\ (c.max_size # None => f.size <= c.max_size[1])

MtimeInRange(f, c) ==
    /\ c.modified_after # None => f.mtime >= c.modified_after[1]
    /\ c.modified_before # None => f.mtime <= c.modified_before[1]

ContentMatches(f) == f.size <= SizeCeiling /\ ~f.nul /\ f.mlen > 0

PassesAll(f, c) ==
    /\ NameOk(f, c)
    /\ ExtOk(f, c)
    /\ SizeInRange(f, c)
    /\ MtimeInRange(f, c)
    /\ (c.content_regex = None \/ ContentMatches(f))

Readable(f) == f.regular /\ f.fault = "none"

\* C1: in a search that is never stopped, an enumerated (readable) file is in
\* the returned list iff it passes the name, extension, size-range and
\* modification-time-range predicates and, when a content pattern is given,
\* its content matches
C1_ConjunctiveFilter ==
    (pc = "done" /\ ~stop_requested) =>
        \A f \in Enumerated :
            Readable(f) => (f.path \in ResultPaths <=> PassesAll(f, crit))

\* C2: once the flag is set during a running search, no candidate whose check
\* has not begun yet is stat-ed, filtered or scanned
C2_NoCheckBeginsAfterStop ==
    [][\A t \in 1..Len(fut) :
          (stop_flag /\ pc \in {"submit", "collect", "handle", "shutdown"}
             /\ fut[t].st = "pending") => t \notin checked']_vars

\* C3: a stop() issued while search() is running is never lost: the flag stays
\* set until search() returns
C3_StopNeverLost == (Running /\ stop_requested) => stop_flag

\* what a search returns on this tree with these criteria when it is never
\* stopped
FullRun ==
    {SearchResult(f, CheckFile(f, crit, engine)) :
        f \in {g \in WalkedFiles : CheckFile(g, crit, engine) \in {NameOnly, ContentMatch}}}

\* C4: the list a stopped search returns is a subset of the full run's list
C4_StoppedIsSubset ==
    (pc = "done" /\ stop_requested) =>
        \A i \in 1..Len(results) : results[i] \in FullRun

\* a stopped search returned a non-empty, incomplete list, and one content
\* scan was cut short on a file the full run reports
C4_Witness ==
    /\ pc = "done" /\ stop_requested
    /\ results # <<>>
    /\ \E t \in checked :
          fut[t].out = "none" /\ CheckFile(File(t), crit, engine) = ContentMatch

\* C5: a stopped search raises nothing; once the search thread has seen the
\* flag it appends no result and calls no callback, and it returns what it
\* had at that moment
C5_StoppedReturnsPartial ==
    /\ [](pc = "raised" => (fut = <<>> /\ CompileFails(crit)))
    /\ [][observed => (results' = results /\ calls' = calls)]_vars
    /\ []((pc = "done" /\ observed) => results = resultsAtObs)

\* the flag was seen in the collection loop while a finished check with a
\* match was waiting to be consumed
C5_Witness ==
    /\ pc = "done" /\ observed
    /\ results # <<>>
    /\ \E t \in 1..Len(fut) :
          fut[t].out \in {NameOnly, ContentMatch} /\ SearchResult(File(t), fut[t].out) \notin
              {results[i] : i \in 1..Len(results)}

\* the invalid-pattern condition as the claim states it
InvalidPattern(c) ==
    \/ c.content_regex # <<>> /\ ~RegexCompiles(c.content_regex)
    \/ c.use_regex_name /\ c.name_pattern # <<"*">> /\ ~RegexCompiles(c.name_pattern)

\* C6: search() raises iff a pattern it has to compile is invalid, and
\* then before any directory is listed, any task submitted, any callback made
C6_InvalidPatternRaisesFirst ==
    /\ pc \notin {"idle", "entered", "compile"} =>
          (pc = "raised" <=> InvalidPattern(crit))
    /\ pc = "raised" => (listed = {} /\ fut = <<>> /\ calls = <<>> /\ results = <<>>)

C6_Witness == pc = "raised" /\ crit.use_regex_name /\ ~RegexCompiles(crit.name_pattern)

\* C7: a fault in one file's check gives no result for that file only
C7_FaultIsolated ==
    /\ pc = "raised" => fut = <<>>
    /\ (pc = "done" /\ ~stop_requested) =>
          /\ processed = Len(files_to_check)
          /\ \A f \in WalkedFiles :
                f.path \in ResultPaths <=>
                    (Readable(f) /\ CheckFile(f, crit, engine) \in {NameOnly, ContentMatch})

C7_Witness ==
    /\ pc = "done" /\ ~stop_requested
    /\ \E t \in 1..Len(fut) : fut[t].out = "exc"
    /\ \E t \in checked : File(t).fault = "os"
    /\ \E t \in checked : ~File(t).regular
    /\ results # <<>>

IsResultCall(c) == c.result # None

ReportedResults ==
    LET rc == SelectSeq(calls, IsResultCall)
    IN  [i \in 1..Len(rc) |-> rc[i].result[1]]

\* C8: with a callback, the results passed to it are, in order, the list
\* search() returns
C8_CallbacksEqualResults == crit.callback => ReportedResults = results

C8_Witness == pc = "done" /\ crit.callback /\ Len(results) >= 2 /\ stop_requested

IsHeartbeat(c) == c.result = None

Heartbeats == SelectSeq(calls, IsHeartbeat)

\* C9: after p completions the heartbeats made are exactly callback(None, 100, N),
\* callback(None, 200, N), ... up to p, in this order
C9_HeartbeatEvery100 ==
    Heartbeats = [k \in 1..(processed \div HeartbeatEvery) |->
                     [result |-> None, processed |-> HeartbeatEvery * k,
                      total |-> Len(files_to_check)]]

\* two heartbeats were made, the first right after the result of the 100th
\* completion, the second after a completion without a result
C9_Witness ==
    /\ pc = "done" /\ Len(Heartbeats) = 2
    /\ \E j \in 2..Len(calls) :
          /\ calls[j].result = None /\ calls[j].processed = HeartbeatEvery
          /\ calls[j - 1].result # None /\ calls[j - 1].processed = HeartbeatEvery - 1
    /\ \E j \in 2..Len(calls) :
          /\ calls[j].result = None /\ calls[j].processed = 2 * HeartbeatEvery
          /\ calls[j - 1].processed < 2 * HeartbeatEvery - 1

\* the pattern matches at offsets k*chunk_size-2 .. k*chunk_size+2
Straddles(f, c) ==
    \E k \in 1..(MaxBoundary + 1) :
        /\ f.mpos = k * ChunkSize(c) - 2
        /\ f.mlen = 5
        /\ f.size >= k * ChunkSize(c) + 3

\* C10: the chunked scan finds a match lying across a chunk boundary
C10_BoundaryMatchFound ==
    (pc = "done" /\ \E f \in Enumerated :
         Straddles(f, crit) /\ ScanEnter(f, crit, engine) = "chunk")
      => (Len(results) = 1 /\ results[1].match_reason = ContentMatch)

C10_Witness ==
    /\ pc = "done"
    /\ \E f \in Enumerated :
          /\ ScanEnter(f, crit, engine) = "chunk"
          /\ f.mpos = MaxBoundary * ChunkDanger - 2 /\ f.mlen = 5
          /\ _is_dangerous_pattern(crit.content_regex)
    /\ Len(results) = 1

\* C11: when the flag is not set, a file scanned in chunks whose whole content
\* the pattern matches somewhere is reported, wherever the match lies and
\* however long it is
C11_ChunkingNoFalseNegative ==
    (pc = "done" /\ \E f \in Enumerated :
         ScanEnter(f, crit, engine) = "chunk" /\ PatternSearch(f, crit, 0, f.size))
      => Len(results) = 1

\* C12: a file with a NUL byte in its first 8192 bytes is never returned when
\* a content pattern is given, whatever the pattern and wherever it matches,
\* by the CPU matchers and by the hybrid GPU matcher
C12_BinaryNeverMatched ==
    \A t \in 1..Len(fut) :
        (HasContentPattern(crit) /\ File(t).nul) =>
            (fut[t].out # ContentMatch /\ File(t).path \notin ResultPaths)

\* the hybrid matcher with a GPU library has checked a 2 MiB file with a NUL
\* byte at its start and the pattern's text further on
C12_Witness ==
    /\ pc = "done" /\ UsesGpu(engine, gpu) /\ GPU_AVAILABLE(gpu)
    /\ \E t \in opened :
          File(t).nul /\ File(t).mlen > 0 /\ File(t).size >= MinFileSizeForGpu
    /\ results = <<>>

\* C13: with a content pattern, a file larger than 100 MiB is never opened by
\* the content matcher and never returned; a file of exactly 100 MiB that
\* holds the pattern's text is opened and returned.  CPU and hybrid matcher.
C13_CeilingExcludesOnlyAbove ==
    \A t \in 1..Len(fut) :
        /\ File(t).size > SizeCeiling =>
              /\ t \notin opened
              /\ fut[t].out # ContentMatch
              /\ File(t).path \notin ResultPaths
        /\ (pc = "done" /\ File(t).size = SizeCeiling /\ File(t).mlen > 0
              /\ File(t).exact /\ ~File(t).nul /\ gpu.fault = "none") =>
              (t \in opened /\ File(t).path \in ResultPaths)

\* the hybrid matcher with a GPU library was given a file of 100 MiB + 1 byte
\* holding the pattern's text
C13_Witness ==
    /\ pc = "done" /\ UsesGpu(engine, gpu) /\ GPU_AVAILABLE(gpu)
    /\ \E t \in checked :
          File(t).size = SizeCeiling + 1 /\ File(t).mlen > 0 /\ fut[t].out = "none"
    /\ opened = {}

\* C14: a result's match_reason is the content-match value iff a content
\* pattern was given, and then the content matcher opened that file and
\* returned true for it; without a content pattern every result is name-only
C14_MatchReason ==
    \A i \in 1..Len(results) :
        /\ results[i].match_reason \in {NameOnly, ContentMatch}
        /\ results[i].match_reason = ContentMatch <=> crit.content_regex # <<>>
        /\ results[i].match_reason = ContentMatch =>
              \E t \in opened :
                  /\ File(t).path = results[i].path
                  /\ fut[t].out = ContentMatch
                  /\ ContentMatches(File(t))

\* a search with a content pattern returned two content matches and scanned
\* a third file without finding the pattern
C14_Witness ==
    /\ pc = "done" /\ crit.content_regex # <<>>
    /\ Len(results) = 2
    /\ \A i \in 1..Len(results) : results[i].match_reason = ContentMatch
    /\ \E t \in opened : fut[t].out = "none" /\ ~ContentMatches(File(t))

\* C15: at every moment of a search, stopped or not, no two results have the
\* same path and every result's path is that of a candidate the walk of this
\* search enumerated
C15_NoDuplicatePaths ==
    /\ \A i, j \in 1..Len(results) : i # j => results[i].path # results[j].path
    /\ \A i \in 1..Len(results) :
          \E k \in 1..Len(files_to_check) : files_to_check[k].path = results[i].path

\* three files were returned, not in the order of the walk; a file with the
\* name of one of them, in a hidden directory, was never a candidate
C15_Witness ==
    /\ pc = "done" /\ Len(results) = 3
    /\ \E f \in {tree[d].files[1] : d \in {e \in 1..Len(tree) : Pruned(e)}} :
          /\ f.path \notin ResultPaths
          /\ \E t \in 1..Len(fut) : File(t).path \in ResultPaths /\ File(t).name = f.name
    /\ results[1].path > results[2].path

\* C16: the size check rejects a file iff its size < min_size or its size >
\* max_size, for every given max_size, 0 included (seen on the finished checks
\* of readable files that pass every other filter)
C16_SizeBoundsInclusive ==
    \A t \in checked :
        (/\ fut[t].st = "finished" /\ Readable(File(t))
         /\ NameOk(File(t), crit) /\ ExtOk(File(t), crit)
         /\ MtimeInRange(File(t), crit) /\ crit.content_regex = <<>>) =>
            (fut[t].out = "none" <=> ~SizeInRange(File(t), crit))

\* C17: with min_size > max_size, both given, no result is ever produced
C17_InvertedRangeEmpty ==
    (crit.max_size # None /\ crit.min_size > crit.max_size[1]) => results = <<>>

\* C18: stop() called only while no search was running (before the first
\* search(), after one has returned) leaves the next search() as it is without
\* any stop(): it enumerates every file of the walk, checks every candidate
\* and returns the full run's results
C18_IdleStopNoEffect ==
    (pc = "done" /\ ~stop_requested) =>
        /\ Enumerated = WalkedFiles
        /\ checked = 1..Len(fut)
        /\ ~observed
        /\ {results[i] : i \in 1..Len(results)} = FullRun

\* stop() was called before the first search() and again after it returned;
\* the search after that returned two or more results
C18_Witness ==
    /\ pc = "done" /\ ~stop_requested
    /\ stopped_idle = {"fresh", "returned"}
    /\ Len(results) >= 2

\* the GPU branch of the hybrid matcher was taken for task t
OnGpuPath(t) ==
    /\ UsesGpu(engine, gpu) /\ GPU_AVAILABLE(gpu)
    /\ t \in opened /\ ~File(t).nul
    /\ File(t).size >= MinFileSizeForGpu

\* C19: in the GPU-backed matcher, when the pattern is not GPU-friendly or a
\* step of the GPU path faults, the file is matched iff the CPU matcher
\* matches the same bytes
C19_GpuFallsBackToCpu ==
    \A t \in 1..Len(fut) :
        (/\ fut[t].st = "finished" /\ OnGpuPath(t)
         /\ (~is_pattern_gpu_friendly(crit.content_regex) \/ gpu.fault # "none")) =>
            (fut[t].out = ContentMatch <=> PatternSearch(File(t), crit, 0, File(t).size))

\* C20: a file holding the pattern's text in another letter case is matched
\* iff case_sensitive is false, on the CPU tiers and on the fault-free GPU
\* paths (files of 1 MiB and more for the hybrid matcher)
C20_CaseSensitiveGoverns ==
    \A t \in 1..Len(fut) :
        (/\ fut[t].st = "finished" /\ t \in opened
         /\ File(t).mlen > 0 /\ ~File(t).exact /\ ~File(t).nul
         /\ gpu.fault = "none"
         /\ UsesGpu(engine, gpu) => File(t).size >= MinFileSizeForGpu) =>
            (fut[t].out = ContentMatch <=> ~crit.case_sensitive)

\* the content scans that applied the pattern
ScansPerformed == {t \in opened : ~File(t).nul /\ fut[t].st = "finished"}

\* C21: workers share no state they read-modify-write: after an uncancelled
\* run with the hybrid engine, gpu_searches + cpu_searches is the number of
\* content scans performed
C21_NoLostUpdate ==
    (pc = "done" /\ UsesGpu(engine, gpu)) =>
        stats.gpu_searches + stats.cpu_searches = Cardinality(ScansPerformed)

\* C22: the file and the criteria unchanged and the flag never set, the
\* second check of a file has the outcome of the first: no result both times,
\* or a result with the same path, size, modified time and match_reason
C22_CheckIdempotent ==
    (pc = "done" /\ previous # <<>>) =>
        \A t \in 1..Len(fut) :
            /\ fut[t].out = previous[t]
            /\ fut[t].out \in {NameOnly, ContentMatch} =>
                  results = <<SearchResult(File(t), previous[t])>>

\* a content scan of task t has read the file and not yet returned
ScanInProgress(t) ==
    fut[t].st = "running" /\ fut[t].stage \in {"medium", "chunk", "hybrid"}

\* C23: once the flag is set, the next thing a content scan in progress does
\* is to return false: it applies the pattern to nothing more.  Every tier,
\* the hybrid matcher included.
C23_ScanStopsAtFlag ==
    [][\A t \in 1..Len(fut) :
          (stop_flag /\ ScanInProgress(t) /\ fut'[t] # fut[t]) =>
              (fut'[t].st = "finished" /\ fut'[t].out = "none")]_vars

\* C24: a file is opened for its content scan only if it is a regular file
\* that passes the name, extension, size-range and modification-time-range
\* predicates, and only when a content pattern is configured
C24_CheapFiltersFirst ==
    \A t \in opened :
        /\ File(t).regular
        /\ NameOk(File(t), crit)
        /\ ExtOk(File(t), crit)
        /\ SizeInRange(File(t), crit)
        /\ MtimeInRange(File(t), crit)
        /\ crit.content_regex # None

\* the completions the loop of search() has taken from as_completed and dealt
\* with, while that loop runs
Consumed ==
    {t \in 1..Len(fut) : /\ fut[t].st = "finished"
                          /\ t # cur
                          /\ \A i \in 1..Len(yieldq) : yieldq[i] # t}

\* C25: while the collecting loop runs, processed is the number of completions
\* consumed and len(results) the number of those that produced a result; and
\* no step but the loop's own handling of one completion changes either of
\* them (a worker finishing a check never does)
C25_SingleAggregator ==
    /\ [](pc \in {"collect", "handle"} =>
            /\ processed = Cardinality(Consumed)
            /\ Len(results) =
                   Cardinality({t \in Consumed : fut[t].out \in {NameOnly, ContentMatch}}))
    /\ [][(processed' # processed \/ results' # results) =>
             (pc = "handle" /\ fut' = fut /\ processed' = processed + 1)]_vars

\* two completions consumed, one with a result and one without, while
\* another check is still running on a worker thread
C25_Witness ==
    /\ pc = "collect"
    /\ processed >= 2
    /\ Len(results) >= 1
    /\ Len(results) < processed
    /\ \E t \in 1..Len(fut) : fut[t].st = "running"

\* C26: in a chunked scan where the pattern raises on one chunk, the file is
\* a content match iff the pattern matches in some chunk it does not raise on,
\* the chunks being those at the multiples of the chunk size, each read with
\* the overlap before it
C26_ChunkFaultSkipsOnlyThatChunk ==
    pc = "done" =>
        \A t \in 1..Len(fut) :
            LET f == File(t)
                cs == ChunkSize(crit)
            IN  (f.cfault >= 0 /\ ScanEnter(f, crit, engine) = "chunk") =>
                    (fut[t].out = ContentMatch <=>
                        \E k \in 0..((f.size - 1) \div cs) :
                            /\ k * cs # f.cfault
                            /\ PatternSearch(f, crit, Max(0, k * cs - Overlap),
                                             Min(f.size, (k + 1) * cs)))

\* the pattern raised on an earlier chunk and the match in a later chunk was
\* found
C26_Witness ==
    /\ pc = "done"
    /\ \E t \in 1..Len(fut) :
          /\ File(t).cfault >= 0
          /\ File(t).mpos >= File(t).cfault + ChunkSize(crit)
          /\ fut[t].out = ContentMatch
          /\ results # <<>>

\* the directories on the way from directory d up to the root, the root
\* left out
RECURSIVE BelowRootPath(_)
BelowRootPath(d) == IF d = 1 THEN {} ELSE {d} \cup BelowRootPath(tree[d].parent)

InHiddenDir(d) == \E e \in BelowRootPath(d) : tree[e].dot

Candidates == {files_to_check[i] : i \in 1..Len(files_to_check)}

\* C27: no candidate lies in a directory that is, or is below, a directory
\* under the root whose name begins with "."; and a walk that is never stopped
\* lists every file of every other directory, whatever the file's own name and
\* whatever the root's name
C27_HiddenDirsPruned ==
    /\ \A d \in 1..Len(tree) : \A i \in 1..Len(tree[d].files) :
           tree[d].files[i] \in Candidates => ~InHiddenDir(d)
    /\ (pc = "done" /\ ~stop_requested) =>
           \A d \in 1..Len(tree) : \A i \in 1..Len(tree[d].files) :
               ~InHiddenDir(d) => tree[d].files[i] \in Candidates

\* a root named with a leading "." was walked: its dot-named file and the
\* dot-named file of a plain subdirectory are candidates, the file of a plain
\* directory inside a hidden one is not
C27_Witness ==
    /\ pc = "done" /\ ~stop_requested
    /\ tree[1].dot
    /\ \E d \in 1..Len(tree) :
          /\ d # 1 /\ tree[d].files[1] \in Candidates
          /\ Head(tree[d].files[1].name) = "."
    /\ \E d \in 1..Len(tree) :
          /\ ~tree[d].dot /\ InHiddenDir(d)
          /\ tree[d].files[1] \notin Candidates

\* C28: every callback invocation reports a processed count that includes
\* the completion being reported, so 1 <= processed <= total in every call
C28_CallbackCountsOwnFile ==
    \A i \in 1..Len(calls) :
        calls[i].processed >= 1 /\ calls[i].processed <= calls[i].total

\* C29: the hybrid matcher, on a file below 1 MiB with no NUL in its first
\* 8192 bytes, reports a content match iff the pattern matches somewhere in
\* the whole content of the file
C29_HybridSmallFileWholeContent ==
    (pc = "done" /\ UsesGpu(engine, gpu)) =>
        \A t \in 1..Len(fut) :
            (File(t).size < MiB /\ ~File(t).nul) =>
                (fut[t].out = ContentMatch <=>
                    PatternSearch(File(t), crit, 0, File(t).size))

\* C30: a call of search() returns (or raises on an invalid pattern), with
\* every submitted check finished, whenever stop() is called or never
C30_SearchReturns ==
    (pc = "entered") ~>
        (pc \in {"done", "raised"} /\ \A t \in 1..Len(fut) : fut[t].st = "finished")

\* search() has returned after stop() broke the collecting loop while a
\* completion was still unconsumed
C30_Witness ==
    /\ pc = "done" /\ stop_requested /\ observed
    /\ Len(fut) >= 2
    /\ processed < Len(fut)
    /\ \A t \in 1..Len(fut) : fut[t].st = "finished"

====
